---- MODULE Spec2Model ----
(***************************************************************************)
(* Model of the JSON-RPC endpoint (ocls::JsonRPC, src/src/jsonrpc.cpp) of  *)
(* opencl-language-server: byte-at-a-time LSP framing, JSON parsing,       *)
(* lifecycle gate, dispatch and error reporting.                           *)
(*                                                                         *)
(* Byte strings are TLA+ strings (TLC treats them as sequences of          *)
(* characters: Len, SubSeq and \o work on them).  JSON values are records  *)
(* of one shape, [t, s, n, kv]:                                            *)
(*   t  the type tag ("null", "boolean", "number", "string", "array",      *)
(*      "object"),                                                         *)
(*   s  the text of a string, n the integer of a number (0/1 of a          *)
(*      boolean), kv the members: a sequence of [k, v]; for an object it   *)
(*      is sorted by key, as nlohmann::json keeps its std::map.            *)
(***************************************************************************)
EXTENDS Integers, Sequences, FiniteSets, TLC

\* ------------------------------------------------------------------------
\* Characters
\* ------------------------------------------------------------------------

\* The characters of the modelled byte strings, in ascending byte order.
Alphabet ==
    "\t\n\r !\"$'+,-./0123456789:;<=>ABCDEFGHIJKLMNOPQRSTUVWXYZ[\\]_abcdefghijklmnopqrstuvwxyz{}"

At(str, i) == IF i >= 1 /\ i <= Len(str) THEN SubSeq(str, i, i) ELSE ""

Code(c) == IF \E i \in 1..Len(Alphabet) : At(Alphabet, i) = c
           THEN CHOOSE i \in 1..Len(Alphabet) : At(Alphabet, i) = c
           ELSE 0

Digits == "0123456789"
IsDigit(c) == \E d \in 1..10 : At(Digits, d) = c
DigitVal(c) == (CHOOSE d \in 1..10 : At(Digits, d) = c) - 1
IsSpace(c) == c \in {" ", "\t", "\r", "\n"}

\* std::string comparison (operator<), the order of std::map's keys
StrLess(a, b) ==
    \E i \in 1..(Len(b)) :
        /\ \A j \in 1..(i - 1) : j <= Len(a) /\ At(a, j) = At(b, j)
        /\ \/ i > Len(a)
           \/ i <= Len(a) /\ Code(At(a, i)) < Code(At(b, i))

StartsWith(str, prefix) ==
    Len(str) >= Len(prefix) /\ SubSeq(str, 1, Len(prefix)) = prefix

EndsWith(str, suffix) ==
    Len(str) >= Len(suffix)
    /\ SubSeq(str, Len(str) - Len(suffix) + 1, Len(str)) = suffix

\* std::to_string(int)
RECURSIVE NatToString(_)
NatToString(n) ==
    IF n < 10 THEN At(Digits, n + 1)
    ELSE NatToString(n \div 10) \o At(Digits, (n % 10) + 1)

IntToString(n) == IF n < 0 THEN "-" \o NatToString(0 - n) ELSE NatToString(n)

\* ------------------------------------------------------------------------
\* JSON values (nlohmann::json)
\* ------------------------------------------------------------------------

JNull == [t |-> "null", s |-> "", n |-> 0, kv |-> <<>>]
JBool(b) == [t |-> "boolean", s |-> "", n |-> IF b THEN 1 ELSE 0, kv |-> <<>>]
JNum(i) == [t |-> "number", s |-> "", n |-> i, kv |-> <<>>]
JStr(str) == [t |-> "string", s |-> str, n |-> 0, kv |-> <<>>]
JArr(items) == [t |-> "array", s |-> "", n |-> 0,
                kv |-> [i \in 1..Len(items) |-> [k |-> "", v |-> items[i]]]]
JEmptyObj == [t |-> "object", s |-> "", n |-> 0, kv |-> <<>>]

\* position of key in the members, 0 when absent (std::map::find)
KeyIndex(kv, key) ==
    IF \E i \in 1..Len(kv) : kv[i].k = key
    THEN CHOOSE i \in 1..Len(kv) : kv[i].k = key
    ELSE 0

\* std::map insert-or-assign at the sorted position
MapSet(kv, key, val) ==
    LET at == KeyIndex(kv, key) IN
    IF at > 0 THEN [kv EXCEPT ![at] = [k |-> key, v |-> val]]
    ELSE LET before == Cardinality({i \in 1..Len(kv) : StrLess(kv[i].k, key)})
         IN SubSeq(kv, 1, before) \o <<[k |-> key, v |-> val]>>
            \o SubSeq(kv, before + 1, Len(kv))

JHas(j, key) == j.t = "object" /\ KeyIndex(j.kv, key) > 0

\* value stored under key (only where JHas(j, key))
JAt(j, key) == j.kv[KeyIndex(j.kv, key)].v

JSet(j, key, val) == [t |-> "object", s |-> "", n |-> 0, kv |-> MapSet(j.kv, key, val)]

\* json::emplace(key, val): inserts only when the key is absent
Emplace(j, key, val) == IF JHas(j, key) THEN j ELSE JSet(j, key, val)

\* the object literal {k1: v1, ...} from a sequence of <<key, value>> pairs
RECURSIVE JObjFrom(_, _)
JObjFrom(pairs, acc) ==
    IF pairs = <<>> THEN acc
    ELSE JObjFrom(Tail(pairs), JSet(acc, Head(pairs)[1], Head(pairs)[2]))

JObj(pairs) == JObjFrom(pairs, JEmptyObj)

\* Non-const json::operator[](key): a null value becomes an object, an absent
\* key is inserted with a null value, any other type raises type_error 305.
\* Yields the container as left behind, the element, and whether it threw.
Subscript(j, key) ==
    IF j.t = "null" THEN [throws |-> FALSE, j |-> JSet(JEmptyObj, key, JNull), v |-> JNull]
    ELSE IF j.t # "object" THEN [throws |-> TRUE, j |-> j, v |-> JNull]
    ELSE IF JHas(j, key) THEN [throws |-> FALSE, j |-> j, v |-> JAt(j, key)]
    ELSE [throws |-> FALSE, j |-> JSet(j, key, JNull), v |-> JNull]

\* json::clear(): the value keeps its type and takes that type's default
Clear(j) == [t |-> j.t, s |-> "", n |-> 0, kv |-> <<>>]

\* json::dump(): compact text, object keys in map order
EscapeChar(c) ==
    IF c = "\"" THEN "\\\""
    ELSE IF c = "\\" THEN "\\\\"
    ELSE IF c = "\n" THEN "\\n"
    ELSE IF c = "\r" THEN "\\r"
    ELSE IF c = "\t" THEN "\\t"
    ELSE c

RECURSIVE Escape(_)
Escape(str) ==
    IF str = "" THEN ""
    ELSE EscapeChar(At(str, 1)) \o Escape(SubSeq(str, 2, Len(str)))

RECURSIVE Dump(_)
RECURSIVE DumpMembers(_, _, _)
DumpMembers(kv, i, isObject) ==
    IF i > Len(kv) THEN ""
    ELSE (IF i > 1 THEN "," ELSE "")
         \o (IF isObject THEN "\"" \o Escape(kv[i].k) \o "\":" ELSE "")
         \o Dump(kv[i].v)
         \o DumpMembers(kv, i + 1, isObject)

Dump(j) ==
    CASE j.t = "null" -> "null"
      [] j.t = "boolean" -> (IF j.n = 1 THEN "true" ELSE "false")
      [] j.t = "number" -> IntToString(j.n)
      [] j.t = "string" -> "\"" \o Escape(j.s) \o "\""
      [] j.t = "array" -> "[" \o DumpMembers(j.kv, 1, FALSE) \o "]"
      [] j.t = "object" -> "{" \o DumpMembers(j.kv, 1, TRUE) \o "}"

\* json::parse(text): a recursive-descent reader.  Every reader yields
\* [ok, v, i]: whether it succeeded, the value read, the next position.
\* Fractions and exponents are outside the modelled number syntax.
ParseFail == [ok |-> FALSE, v |-> JNull, i |-> 0]

RECURSIVE SkipSpace(_, _)
SkipSpace(text, i) ==
    IF i <= Len(text) /\ IsSpace(At(text, i)) THEN SkipSpace(text, i + 1) ELSE i

\* the characters of a string literal from position i up to the closing quote
RECURSIVE ParseStringBody(_, _, _)
ParseStringBody(text, i, acc) ==
    LET c == At(text, i) IN
    IF i > Len(text) \/ c \in {"\n", "\r", "\t"} THEN ParseFail
    ELSE IF c = "\"" THEN [ok |-> TRUE, v |-> JStr(acc), i |-> i + 1]
    ELSE IF c = "\\" THEN
        LET e == At(text, i + 1) IN
        IF e \in {"\"", "\\", "/"} THEN ParseStringBody(text, i + 2, acc \o e)
        ELSE IF e = "n" THEN ParseStringBody(text, i + 2, acc \o "\n")
        ELSE IF e = "r" THEN ParseStringBody(text, i + 2, acc \o "\r")
        ELSE IF e = "t" THEN ParseStringBody(text, i + 2, acc \o "\t")
        ELSE ParseFail
    ELSE ParseStringBody(text, i + 1, acc \o c)

RECURSIVE ParseDigits(_, _, _)
ParseDigits(text, i, acc) ==
    IF IsDigit(At(text, i))
    THEN ParseDigits(text, i + 1, acc * 10 + DigitVal(At(text, i)))
    ELSE [ok |-> TRUE, v |-> JNum(acc), i |-> i]

ParseNumber(text, i) ==
    LET neg == At(text, i) = "-"
        first == IF neg THEN i + 1 ELSE i
        r == IF At(text, first) = "0"
             THEN [ok |-> TRUE, v |-> JNum(0), i |-> first + 1]
             ELSE ParseDigits(text, first, 0)
    IN  IF ~IsDigit(At(text, first)) \/ At(text, r.i) \in {".", "e", "E"}
        THEN ParseFail
        ELSE [ok |-> TRUE, v |-> JNum(IF neg THEN 0 - r.v.n ELSE r.v.n), i |-> r.i]

ParseLiteral(text, i, word, val) ==
    IF i + Len(word) - 1 <= Len(text) /\ SubSeq(text, i, i + Len(word) - 1) = word
    THEN [ok |-> TRUE, v |-> val, i |-> i + Len(word)]
    ELSE ParseFail

RECURSIVE ParseValue(_, _)
RECURSIVE ParseMembers(_, _, _)
RECURSIVE ParseItems(_, _, _)

\* the members of an object after "{" or ",": "key" : value, then "," or "}"
ParseMembers(text, i, acc) ==
    LET ki == SkipSpace(text, i) IN
    IF At(text, ki) # "\"" THEN ParseFail
    ELSE LET key == ParseStringBody(text, ki + 1, "") IN
    IF ~key.ok THEN ParseFail
    ELSE LET ci == SkipSpace(text, key.i) IN
    IF At(text, ci) # ":" THEN ParseFail
    ELSE LET val == ParseValue(text, ci + 1) IN
    IF ~val.ok THEN ParseFail
    ELSE LET ni == SkipSpace(text, val.i)
             obj == JSet(acc, key.v.s, val.v)
         IN  IF At(text, ni) = "," THEN ParseMembers(text, ni + 1, obj)
             ELSE IF At(text, ni) = "}" THEN [ok |-> TRUE, v |-> obj, i |-> ni + 1]
             ELSE ParseFail

\* the items of an array after "[" or ",": value, then "," or "]"
ParseItems(text, i, acc) ==
    LET val == ParseValue(text, i) IN
    IF ~val.ok THEN ParseFail
    ELSE LET ni == SkipSpace(text, val.i)
             items == Append(acc, val.v)
         IN  IF At(text, ni) = "," THEN ParseItems(text, ni + 1, items)
             ELSE IF At(text, ni) = "]" THEN [ok |-> TRUE, v |-> JArr(items), i |-> ni + 1]
             ELSE ParseFail

ParseValue(text, i) ==
    LET at == SkipSpace(text, i)
        c == At(text, at)
    IN  IF c = "{" THEN
            IF At(text, SkipSpace(text, at + 1)) = "}"
            THEN [ok |-> TRUE, v |-> JEmptyObj, i |-> SkipSpace(text, at + 1) + 1]
            ELSE ParseMembers(text, at + 1, JEmptyObj)
        ELSE IF c = "[" THEN
            IF At(text, SkipSpace(text, at + 1)) = "]"
            THEN [ok |-> TRUE, v |-> JArr(<<>>), i |-> SkipSpace(text, at + 1) + 1]
            ELSE ParseItems(text, at + 1, <<>>)
        ELSE IF c = "\"" THEN ParseStringBody(text, at + 1, "")
        ELSE IF c = "-" \/ IsDigit(c) THEN ParseNumber(text, at)
        ELSE IF c = "n" THEN ParseLiteral(text, at, "null", JNull)
        ELSE IF c = "t" THEN ParseLiteral(text, at, "true", JBool(TRUE))
        ELSE IF c = "f" THEN ParseLiteral(text, at, "false", JBool(FALSE))
        ELSE ParseFail

\* json::parse: one value, then nothing but white space up to the end
Parse(text) ==
    LET r == ParseValue(text, 1) IN
    IF r.ok /\ SkipSpace(text, r.i) = Len(text) + 1
    THEN [ok |-> TRUE, v |-> r.v]
    ELSE [ok |-> FALSE, v |-> JNull]

\* ------------------------------------------------------------------------
\* The endpoint (ocls::JsonRPC)
\* ------------------------------------------------------------------------

VARIABLES
    m_method,           \* method name of the message being dispatched
    m_buffer,           \* bytes of the current header line or body
    m_body,             \* the parsed message
    m_headers,          \* header name -> value
    m_callbacks,        \* the method names that have a handler
    m_respondCallback,  \* whether the handler for client responses is set
    m_outputCallback,   \* whether the output sink is set
    m_isProcessing,     \* IsReady() is its negation
    m_initialized,
    m_validHeader,      \* TRUE: reading the body, FALSE: reading headers
    m_tracing,
    m_verbosity,
    m_contentLength,
    thrown,             \* an exception left Consume
    input,              \* bytes of the current frame not yet fed to Consume
    sent,               \* number of frames handed to the byte pump
    cur,                \* name of the frame being fed
    prevError,          \* code of the last error response to the previous frame, 0 if none
    atBoundary,         \* the frame being fed began with the endpoint between two frames
    prevThrew,          \* a method handler invoked for the previous frame raised
    logged,             \* the last call of LogTrace since the frame was fed, with what it wrote
    output,             \* messages the output sink received for the current frame
    calls,              \* handler invocations made for the current frame
    m_device,           \* Diagnostics: the selected device, <<>> when there is none
    m_maxNumberOfProblems,
    m_BuildOptions,     \* Diagnostics: the options given to the compiler
    lastCall            \* Diagnostics: the last operation called, its arguments and outcome

vars == <<m_method, m_buffer, m_body, m_headers, m_callbacks, m_respondCallback,
          m_outputCallback, m_isProcessing, m_initialized, m_validHeader,
          m_tracing, m_verbosity, m_contentLength, thrown, input, sent, cur,
          prevError, atBoundary, prevThrew, logged, output, calls,
          m_device, m_maxNumberOfProblems, m_BuildOptions, lastCall>>

endpointVars == <<m_method, m_buffer, m_body, m_headers, m_isProcessing,
                  m_initialized, m_validHeader, m_tracing, m_verbosity,
                  m_contentLength, thrown>>
registrationVars == <<m_callbacks, m_respondCallback, m_outputCallback>>
pumpVars == <<input, sent, cur, prevError, atBoundary, prevThrew>>
jsonrpcVars == <<endpointVars, registrationVars, pumpVars, logged, output, calls>>
diagnosticsVars == <<m_device, m_maxNumberOfProblems, m_BuildOptions, lastCall>>

LE == "\r\n"

\* JsonRPC::ErrorCode
ParseError == -32700
InvalidRequest == -32600
MethodNotFound == -32601
InvalidParams == -32602
InternalError == -32603
NotInitialized == -32002

\* largest value of int, beyond which std::stoi raises out_of_range
IntMax == 2147483647

\* JsonRPC::Write: the framed message handed to the output sink; nothing is
\* handed over when emplace raises (data neither an object nor null)
Write(data) ==
    IF data.t \notin {"object", "null"} THEN <<>>
    ELSE LET body == Emplace(IF data.t = "null" THEN JEmptyObj ELSE data,
                             "jsonrpc", JStr("2.0"))
             content == Dump(body)
         IN  << "Content-Length: " \o IntToString(Len(content)) \o LE
                \o "Content-Type: application/vscode-jsonrpc;charset=utf-8" \o LE
                \o LE
                \o content >>

\* JsonRPC::WriteError
WriteError(errorCode, message) ==
    Write(JObj(<< <<"error", JObj(<< <<"code", JNum(errorCode)>>,
                                     <<"message", JStr(message)>> >>)>> >>))

\* m_body[outer][inner] on the non-const m_body: both subscripts insert what
\* is absent.  Yields the body as left behind, the element, whether it threw.
Subscript2(body, outer, inner) ==
    LET p == Subscript(body, outer)
        q == Subscript(p.v, inner)
    IN  IF p.throws THEN [throws |-> TRUE, j |-> body, v |-> JNull]
        ELSE IF q.throws THEN [throws |-> TRUE, j |-> p.j, v |-> JNull]
        ELSE [throws |-> FALSE, j |-> JSet(p.j, outer, q.j), v |-> q.v]

\* JsonRPC::OnInitialize: reads m_body["params"]["trace"] as a string; any
\* exception is caught and leaves the three flags as they were
OnInitialize(body) ==
    LET Flags(e) ==
            LET ok == ~e.throws /\ e.v.t = "string"
            IN  [body |-> e.j,
                 initialized |-> IF ok THEN TRUE ELSE m_initialized,
                 tracing |-> IF ok THEN e.v.s # "off" ELSE m_tracing,
                 verbosity |-> IF ok THEN e.v.s = "verbose" ELSE m_verbosity]
    IN  Flags(Subscript2(body, "params", "trace"))

\* JsonRPC::OnTracingChanged: reads data["params"]["value"] through the const
\* subscript, which raises on a non-object and is undefined on an absent key
OnTracingChanged(data) ==
    LET hasParams == JHas(data, "params")
        params == IF hasParams THEN JAt(data, "params") ELSE JNull
        undefined == ~hasParams \/ (params.t = "object" /\ ~JHas(params, "value"))
        ok == ~undefined /\ params.t = "object" /\ JAt(params, "value").t = "string"
        traceValue == IF ok THEN JAt(params, "value").s ELSE ""
    IN  [undefined |-> undefined,
         tracing |-> IF ok THEN traceValue # "off" ELSE m_tracing,
         verbosity |-> IF ok THEN traceValue = "verbose" ELSE m_verbosity]

\* JsonRPC::LogTrace: the messages handed to the output sink
LogTrace(message, verbose) ==
    IF ~m_tracing THEN <<>>
    ELSE IF verbose # "" /\ ~m_verbosity THEN <<>>
    ELSE Write(JObj(<< <<"method", JStr("$/logTrace")>>,
                       <<"params", JObj(<< <<"message", JStr(message)>>,
                                           <<"verbose", JStr(IF m_verbosity THEN verbose
                                                             ELSE "")>> >>)>> >>))

\* FireMethodCallback without the try around the handler: its exception
\* reaches the catch block of Consume
FireMethodCallbackRethrows(body, method, handlerThrows) ==
    IF method \notin m_callbacks
    THEN LET Unhandled(e) ==
                 [throws |-> e.throws, body |-> e.j,
                  out |-> IF ~e.throws /\ (e.v # JNull \/ ~StartsWith(method, "$/"))
                          THEN WriteError(MethodNotFound,
                                          "Method '" \o method \o "' is not supported.")
                          ELSE <<>>,
                  calls |-> <<>>]
         IN  Unhandled(Subscript2(body, "params", "id"))
    ELSE [throws |-> handlerThrows, body |-> body, out |-> <<>>,
          calls |-> <<[handler |-> method, arg |-> body, threw |-> handlerThrows]>>]

\* JsonRPC::FireMethodCallback: calls the handler of the method, whose
\* exception is caught here; without a handler answers MethodNotFound when a
\* response is due
FireMethodCallback(body, method, handlerThrows) ==
    IF method \notin m_callbacks
    THEN LET Unhandled(e) ==
                 LET isRequest == e.v # JNull
                     mustRespond == isRequest \/ ~StartsWith(method, "$/")
                 IN  [throws |-> e.throws, body |-> e.j,
                      out |-> IF ~e.throws /\ mustRespond
                              THEN WriteError(MethodNotFound,
                                              "Method '" \o method \o "' is not supported.")
                              ELSE <<>>,
                      calls |-> <<>>]
         IN  Unhandled(Subscript2(body, "params", "id"))
    ELSE [throws |-> FALSE, body |-> body, out |-> <<>>,
          calls |-> <<[handler |-> method, arg |-> body, threw |-> handlerThrows]>>]

\* the name under which an invocation of the response handler is recorded
RespondHandler == "<respond>"

\* JsonRPC::FireRespondCallback: the handler's exception is not caught here
FireRespondCallback(body, handlerThrows) ==
    IF m_respondCallback
    THEN [throws |-> handlerThrows,
          calls |-> <<[handler |-> RespondHandler, arg |-> body, threw |-> handlerThrows]>>]
    ELSE [throws |-> FALSE, calls |-> <<>>]

\* ------------------------------------------------------------------------
\* Header lines
\* ------------------------------------------------------------------------

NoMatch == [found |-> FALSE, key |-> "", value |-> ""]

\* m_headerRegex applied to the buffer: once the buffer ends with CRLF the
\* line before it is matched against ^([^:]+):\s*(.+?)\s*$ ("." matches no
\* line terminator).  Yields captures 1 and 2.
HeaderMatch(buffer) ==
    IF ~EndsWith(buffer, LE) THEN NoMatch
    ELSE LET line == SubSeq(buffer, 1, Len(buffer) - Len(LE))
             colons == {i \in 1..Len(line) : At(line, i) = ":"}
             colon == IF colons = {} THEN 0
                      ELSE CHOOSE i \in colons : \A j \in colons : i <= j
             rest == SubSeq(line, colon + 1, Len(line))
             solid == {i \in 1..Len(rest) : ~IsSpace(At(rest, i))}
             blanks == {i \in 1..Len(rest) : At(rest, i) \in {" ", "\t"}}
             from == CHOOSE i \in solid : \A j \in solid : i <= j
             to == CHOOSE i \in solid : \A j \in solid : i >= j
             lastBlank == CHOOSE i \in blanks : \A j \in blanks : i >= j
         IN  IF colon <= 1 THEN NoMatch
             ELSE IF solid # {} THEN
                 IF \E i \in from..to : At(rest, i) \in {"\r", "\n"} THEN NoMatch
                 ELSE [found |-> TRUE, key |-> SubSeq(line, 1, colon - 1),
                       value |-> SubSeq(rest, from, to)]
             ELSE IF blanks # {} THEN
                 [found |-> TRUE, key |-> SubSeq(line, 1, colon - 1),
                  value |-> At(rest, lastBlank)]
             ELSE NoMatch

\* The digits of std::stoi from position i, accumulated below zero so that
\* the least int is reached without leaving the range; ok is FALSE once the
\* value does not fit an int.
RECURSIVE StoiDigits(_, _, _)
StoiDigits(value, i, acc) ==
    IF ~IsDigit(At(value, i)) THEN [ok |-> TRUE, n |-> acc]
    ELSE IF acc < 0 - (IF DigitVal(At(value, i)) = 0 THEN IntMax \div 10
                       ELSE (IntMax - DigitVal(At(value, i)) + 1) \div 10)
    THEN [ok |-> FALSE, n |-> 0]
    ELSE StoiDigits(value, i + 1, acc * 10 - DigitVal(At(value, i)))

\* std::stoi(value): leading white space, an optional sign, then digits up to
\* the first other character; raises when there is no digit (invalid_argument)
\* or the number does not fit an int (out_of_range)
Stoi(value) ==
    LET start == SkipSpace(value, 1)
        negative == At(value, start) = "-"
        first == IF At(value, start) \in {"+", "-"} THEN start + 1 ELSE start
        Number(digits) ==
            IF ~IsDigit(At(value, first)) \/ ~digits.ok
               \/ (~negative /\ digits.n = 0 - IntMax - 1)
            THEN [throws |-> TRUE, n |-> 0]
            ELSE [throws |-> FALSE, n |-> IF negative THEN digits.n ELSE 0 - digits.n]
    IN  Number(StoiDigits(value, first, 0))

\* JsonRPC::ReadHeader: stores the matched header, and the content length
\* when the header is Content-Length; std::stoi's exception is not caught
ReadHeader(buffer) ==
    LET Store(match, length) ==
            LET isLength == match.found /\ match.key = "Content-Length"
                throws == isLength /\ length.throws
            IN  [found |-> match.found,
                 throws |-> throws,
                 contentLength |-> IF isLength /\ ~throws THEN length.n
                                   ELSE m_contentLength,
                 headers |-> IF match.found /\ ~throws
                             THEN [k \in (DOMAIN m_headers) \cup {match.key} |->
                                      IF k = match.key THEN match.value ELSE m_headers[k]]
                             ELSE m_headers]
        Matched(match) == Store(match, Stoi(match.value))
    IN  Matched(HeaderMatch(buffer))

\* ------------------------------------------------------------------------
\* Consume
\* ------------------------------------------------------------------------

\* what an undefined const subscript in OnTracingChanged may lead to: the
\* process is ended, or the read raises and the flags stay
UndefinedOutcomes == {"abort", "unchanged"}

\* Caught without m_buffer.clear(): the rejected bytes stay in the buffer
CaughtKeepsBuffer(r) ==
    [r EXCEPT !.out = r.out \o WriteError(ParseError, "Failed to parse request")]

\* The catch block of JsonRPC::Consume: the buffer is cleared and ParseError
\* is written; m_isProcessing stays as it is.
Caught(r) ==
    [r EXCEPT !.buffer = "",
              !.out = r.out \o WriteError(ParseError, "Failed to parse request")]

\* JsonRPC::Consume once the buffer holds m_contentLength bytes: parse and
\* dispatch inside try, with the catch block.  Yields the members as left
\* behind, the messages written and the handler invocations made.
ProcessBody(text, handlerThrows, undefinedOutcome) ==
    LET base == [buffer |-> text, body |-> m_body, method |-> m_method,
                 initialized |-> m_initialized, tracing |-> m_tracing,
                 verbosity |-> m_verbosity, isProcessing |-> m_isProcessing,
                 out |-> <<>>, calls |-> <<>>, aborted |-> FALSE]
        Done(r) == [r EXCEPT !.isProcessing = FALSE]
        Settle(r, throws) == IF throws THEN Caught(r) ELSE Done(r)
        Fired(r, f) ==
            Settle([r EXCEPT !.body = f.body, !.out = r.out \o f.out,
                             !.calls = r.calls \o f.calls], f.throws)
        Fire(r) == Fired(r, FireMethodCallback(r.body, r.method, handlerThrows))
        Responded(r, f) == Settle([r EXCEPT !.calls = f.calls], f.throws)
        Initialized(r, oi) ==
            Fire([r EXCEPT !.body = oi.body, !.initialized = oi.initialized,
                           !.tracing = oi.tracing, !.verbosity = oi.verbosity])
        Traced(r, tc) ==
            IF tc.undefined /\ undefinedOutcome = "abort"
            THEN [r EXCEPT !.aborted = TRUE]
            ELSE Fire([r EXCEPT !.tracing = tc.tracing, !.verbosity = tc.verbosity])
        Dispatch(r) ==
            IF r.method = "initialize" THEN Initialized(r, OnInitialize(r.body))
            ELSE IF ~m_initialized THEN
                [r EXCEPT !.out = WriteError(NotInitialized, "Server was not initialized.")]
            ELSE IF r.method = "$/setTrace" THEN Traced(r, OnTracingChanged(r.body))
            ELSE Fire(r)
        Respond(r) == Responded(r, FireRespondCallback(r.body, handlerThrows))
        Message(r, m) ==
            IF m.throws THEN Caught([r EXCEPT !.body = m.j])
            ELSE IF m.v.t = "string"
            THEN Dispatch([r EXCEPT !.body = m.j, !.method = m.v.s])
            ELSE Respond([r EXCEPT !.body = m.j])
        Parsed(r, parsed) ==
            IF ~parsed.ok THEN Caught(r)
            ELSE Message(r, Subscript(parsed.v, "method"))
    IN  Parsed(base, Parse(text))

\* HeaderEnd with m_contentLength >= 0 for the test m_contentLength > 0
HeaderEndAcceptsZero(contentLength) ==
    [valid |-> contentLength >= 0,
     out |-> IF contentLength >= 0 THEN <<>>
             ELSE WriteError(InvalidRequest, "Invalid content length")]

\* JsonRPC::Consume at the empty line that ends the headers: the body follows
\* when a content length above 0 is known, else InvalidRequest is written
HeaderEnd(contentLength) ==
    [valid |-> contentLength > 0,
     out |-> IF contentLength > 0 THEN <<>>
             ELSE WriteError(InvalidRequest, "Invalid content length")]

\* Consume that goes back to reading headers once a body was handled
ConsumeByteLeavesBody(c, handlerThrows, undefinedOutcome) ==
    LET Body(r) ==
            /\ m_buffer' = r.buffer
            /\ m_body' = r.body
            /\ m_method' = r.method
            /\ m_initialized' = r.initialized
            /\ m_tracing' = r.tracing
            /\ m_verbosity' = r.verbosity
            /\ m_isProcessing' = r.isProcessing
            /\ thrown' = r.aborted
            /\ output' = output \o r.out
            /\ calls' = calls \o r.calls
            /\ m_validHeader' = FALSE
            /\ m_contentLength' = 0
            /\ UNCHANGED m_headers
        Header(text, header, end) ==
            /\ thrown' = header.throws
            /\ m_contentLength' = header.contentLength
            /\ m_headers' = header.headers
            /\ IF header.throws
               THEN /\ m_buffer' = text
                    /\ UNCHANGED <<m_validHeader, output>>
               ELSE IF ~header.found /\ text = LE
               THEN /\ m_buffer' = ""
                    /\ m_validHeader' = end.valid
                    /\ output' = output \o end.out
               ELSE /\ m_buffer' = (IF header.found THEN "" ELSE text)
                    /\ UNCHANGED <<m_validHeader, output>>
            /\ UNCHANGED <<m_method, m_body, m_isProcessing, m_initialized,
                           m_tracing, m_verbosity, calls>>
        HeaderLine(text, header) == Header(text, header, HeaderEnd(header.contentLength))
        Byte(text) ==
            IF m_validHeader THEN
                IF Len(text) # m_contentLength
                THEN /\ m_buffer' = text
                     /\ UNCHANGED <<m_method, m_body, m_headers, m_isProcessing,
                                    m_initialized, m_validHeader, m_tracing, m_verbosity,
                                    m_contentLength, thrown, output, calls>>
                ELSE Body(ProcessBody(text, handlerThrows, undefinedOutcome))
            ELSE HeaderLine(text, ReadHeader(text))
    IN  Byte(m_buffer \o c)

\* JsonRPC::Consume(c)
ConsumeByte(c, handlerThrows, undefinedOutcome) ==
    LET Body(r) ==
            /\ m_buffer' = r.buffer
            /\ m_body' = r.body
            /\ m_method' = r.method
            /\ m_initialized' = r.initialized
            /\ m_tracing' = r.tracing
            /\ m_verbosity' = r.verbosity
            /\ m_isProcessing' = r.isProcessing
            /\ thrown' = r.aborted
            /\ output' = output \o r.out
            /\ calls' = calls \o r.calls
            /\ UNCHANGED <<m_headers, m_validHeader, m_contentLength>>
        Header(text, header, end) ==
            /\ thrown' = header.throws
            /\ m_contentLength' = header.contentLength
            /\ m_headers' = header.headers
            /\ IF header.throws
               THEN /\ m_buffer' = text
                    /\ UNCHANGED <<m_validHeader, output>>
               ELSE IF ~header.found /\ text = LE
               THEN /\ m_buffer' = ""
                    /\ m_validHeader' = end.valid
                    /\ output' = output \o end.out
               ELSE /\ m_buffer' = (IF header.found THEN "" ELSE text)
                    /\ UNCHANGED <<m_validHeader, output>>
            /\ UNCHANGED <<m_method, m_body, m_isProcessing, m_initialized,
                           m_tracing, m_verbosity, calls>>
        HeaderLine(text, header) == Header(text, header, HeaderEnd(header.contentLength))
        Byte(text) ==
            IF m_validHeader THEN
                IF Len(text) # m_contentLength
                THEN /\ m_buffer' = text
                     /\ UNCHANGED <<m_method, m_body, m_headers, m_isProcessing,
                                    m_initialized, m_validHeader, m_tracing, m_verbosity,
                                    m_contentLength, thrown, output, calls>>
                ELSE Body(ProcessBody(text, handlerThrows, undefinedOutcome))
            ELSE HeaderLine(text, ReadHeader(text))
    IN  Byte(m_buffer \o c)

\* the byte that completes the body: the only one that reaches the handlers
CompletesBody == m_validHeader /\ Len(m_buffer) + 1 = m_contentLength

\* The byte pump feeds the next byte of the frame; it calls Reset() as soon as
\* IsReady() holds, so Consume is never called on a ready endpoint.  A handler
\* called for the message may raise.
Consume ==
    /\ ~thrown
    /\ input # ""
    /\ m_isProcessing
    /\ \E handlerThrows \in (IF CompletesBody THEN BOOLEAN ELSE {FALSE}),
          undefinedOutcome \in (IF CompletesBody THEN UndefinedOutcomes ELSE {"unchanged"}) :
           ConsumeByte(At(input, 1), handlerThrows, undefinedOutcome)
    /\ input' = SubSeq(input, 2, Len(input))
    /\ UNCHANGED <<registrationVars, sent, cur, prevError, atBoundary, prevThrew, logged,
                   diagnosticsVars>>

\* JsonRPC::IsReady
IsReady == ~m_isProcessing

\* Reset that also clears the lifecycle flag
ResetClearsLifecycle ==
    /\ ~thrown
    /\ IsReady
    /\ m_method' = ""
    /\ m_buffer' = ""
    /\ m_body' = Clear(m_body)
    /\ m_headers' = <<>>
    /\ m_validHeader' = FALSE
    /\ m_contentLength' = 0
    /\ m_isProcessing' = TRUE
    /\ m_initialized' = FALSE
    /\ UNCHANGED <<m_tracing, m_verbosity, thrown,
                   registrationVars, pumpVars, logged, output, calls, diagnosticsVars>>

\* Reset without m_validHeader = false
ResetKeepsPhase ==
    /\ ~thrown
    /\ IsReady
    /\ m_method' = ""
    /\ m_buffer' = ""
    /\ m_body' = Clear(m_body)
    /\ m_headers' = <<>>
    /\ m_contentLength' = 0
    /\ m_isProcessing' = TRUE
    /\ UNCHANGED <<m_validHeader, m_initialized, m_tracing, m_verbosity, thrown,
                   registrationVars, pumpVars, logged, output, calls, diagnosticsVars>>

\* JsonRPC::Reset, called by the byte pump when IsReady()
Reset ==
    /\ ~thrown
    /\ IsReady
    /\ m_method' = ""
    /\ m_buffer' = ""
    /\ m_body' = Clear(m_body)
    /\ m_headers' = <<>>
    /\ m_validHeader' = FALSE
    /\ m_contentLength' = 0
    /\ m_isProcessing' = TRUE
    /\ UNCHANGED <<m_initialized, m_tracing, m_verbosity, thrown,
                   registrationVars, pumpVars, logged, output, calls, diagnosticsVars>>

\* ------------------------------------------------------------------------
\* Registration
\* ------------------------------------------------------------------------

\* the methods the client of the endpoint may install a handler for
HandledMethods == {"initialize", "foo"}

\* JsonRPC::RegisterMethodCallback, at start-up
RegisterMethodCallback(method) ==
    /\ sent = 0
    /\ method \notin m_callbacks
    /\ m_callbacks' = m_callbacks \cup {method}
    /\ UNCHANGED <<endpointVars, m_respondCallback, m_outputCallback, pumpVars,
                   logged, output, calls, diagnosticsVars>>

\* JsonRPC::RegisterInputCallback, at start-up
RegisterInputCallback ==
    /\ sent = 0
    /\ ~m_respondCallback
    /\ m_respondCallback' = TRUE
    /\ UNCHANGED <<endpointVars, m_callbacks, m_outputCallback, pumpVars,
                   logged, output, calls, diagnosticsVars>>

\* JsonRPC::RegisterOutputCallback, at start-up
RegisterOutputCallback ==
    /\ sent = 0
    /\ ~m_outputCallback
    /\ m_outputCallback' = TRUE
    /\ UNCHANGED <<endpointVars, m_callbacks, m_respondCallback, pumpVars,
                   logged, output, calls, diagnosticsVars>>

\* ------------------------------------------------------------------------
\* Frames fed to the endpoint
\* ------------------------------------------------------------------------

\* number of frames fed in one run
MaxFrames == 2

\* BuildRequest of the tests: the framing of a body
BuildRequest(content) ==
    "Content-Length: " \o IntToString(Len(content)) \o LE
    \o "Content-Type: application/vscode-jsonrpc;charset=utf-8" \o LE
    \o LE
    \o content

Request(id, method) == JObj(<< <<"id", JNum(id)>>, <<"method", JStr(method)>> >>)
Notification(method) == JObj(<< <<"method", JStr(method)>> >>)
WithParams(message, params) == JSet(message, "params", JObj(params))

\* messages of a client; each is framed by Write, as a peer endpoint does
Messages ==
    [ initOff |-> WithParams(Request(0, "initialize"), << <<"trace", JStr("off")>> >>),
      initVerbose |-> WithParams(Request(0, "initialize"), << <<"trace", JStr("verbose")>> >>),
      initNoTrace |-> WithParams(Request(0, "initialize"), << <<"processId", JNum(7)>> >>),
      foo |-> WithParams(Request(1, "foo"), << <<"text", JStr("a \"b\"")>> >>),
      bar |-> Request(1, "bar"),
      barNote |-> Notification("bar"),
      note |-> Notification("$/x"),
      noteId |-> Request(2, "$/x"),
      noteParamsId |-> WithParams(Notification("$/x"), << <<"id", JNum(2)>> >>),
      initMessages |-> WithParams(Request(0, "initialize"), << <<"trace", JStr("messages")>> >>),
      setTrace |-> WithParams(Notification("$/setTrace"), << <<"value", JStr("verbose")>> >>),
      setTraceOff |-> WithParams(Notification("$/setTrace"), << <<"value", JStr("off")>> >>),
      setTraceNoValue |-> WithParams(Notification("$/setTrace"), <<>>),
      response |-> JObj(<< <<"id", JNum(3)>>, <<"result", JNull>> >>),
      numberMethod |-> JObj(<< <<"id", JNum(4)>>, <<"method", JNum(5)>> >>) ]

\* frames that carry no message
RawFrames ==
    [ badJson |-> BuildRequest("{\"jsonrpc: 2.0\", \"id\":0, [method]: \"initialize\"}"),
      notObject |-> BuildRequest(Dump(JStr("textDocument/didOpen"))),
      noHeader |-> LE,
      zeroLength |-> "Content-Length: 0" \o LE \o LE,
      otherHeader |-> "Content-Type: text" \o LE \o LE,
      badLength |-> "Content-Length: abc" \o LE \o LE ]

FrameNames == (DOMAIN Messages) \cup (DOMAIN RawFrames)

FrameBytes(name) ==
    IF name \in DOMAIN Messages THEN Write(Messages[name])[1] ELSE RawFrames[name]

\* ParseResponse of the tests: what follows the last CRLF of a message
ParseResponse(str) ==
    LET ends == {i \in 2..Len(str) : SubSeq(str, i - 1, i) = LE}
        last == IF ends = {} THEN 0 ELSE CHOOSE i \in ends : \A j \in ends : i >= j
    IN  SubSeq(str, last + 1, Len(str))

\* error.code of an outbound message, 0 when it is no error response
ErrorCodeOf(message) ==
    LET response == Parse(ParseResponse(message)).v IN
    IF JHas(response, "error") /\ JHas(JAt(response, "error"), "code")
    THEN JAt(JAt(response, "error"), "code").n
    ELSE 0

ErrorCodes(out) == [i \in 1..Len(out) |-> ErrorCodeOf(out[i])]

\* the endpoint is between two frames: reading headers, nothing buffered
BetweenFrames == ~m_validHeader /\ m_buffer = "" /\ m_isProcessing

\* The byte pump starts on the next frame of its input stream.  The handlers
\* and the sink are installed before the first frame; the stream ends with
\* the first frame that reaches the endpoint in the middle of another one.
Send(name) ==
    /\ ~thrown
    /\ m_outputCallback
    /\ HandledMethods \subseteq m_callbacks
    /\ m_isProcessing
    /\ input = ""
    /\ sent < MaxFrames
    /\ sent = 0 \/ atBoundary
    /\ input' = FrameBytes(name)
    /\ sent' = sent + 1
    /\ cur' = name
    /\ prevError' = (IF output = <<>> THEN 0 ELSE ErrorCodeOf(output[Len(output)]))
    /\ atBoundary' = BetweenFrames
    /\ prevThrew' = (\E i \in 1..Len(calls) :
                        calls[i].threw /\ calls[i].handler # RespondHandler)
    /\ logged' = <<>>
    /\ output' = <<>>
    /\ calls' = <<>>
    /\ UNCHANGED <<endpointVars, registrationVars, diagnosticsVars>>

\* the arguments the server passes to LogTrace
TraceMessages == {"hi"}
TraceVerbose == {"", "detail"}

\* The server calls JsonRPC::LogTrace between two frames.
CallLogTrace(message, verbose) ==
    /\ ~thrown
    /\ m_outputCallback
    /\ input = ""
    /\ logged' = <<[message |-> message, verbose |-> verbose,
                    out |-> LogTrace(message, verbose)]>>
    /\ UNCHANGED <<endpointVars, registrationVars, pumpVars, output, calls,
                   diagnosticsVars>>

\* ------------------------------------------------------------------------
\* The diagnostics engine (ocls::Diagnostics): device selection
\* ------------------------------------------------------------------------

\* devices an OpenCL host may report: the identifier ICLInfo::GetDeviceID
\* gives, CL_DEVICE_MAX_COMPUTE_UNITS, CL_DEVICE_MAX_CLOCK_FREQUENCY, and
\* whether the queries for its information raise cl::Error
Devices ==
    [ gpu16 |-> [id |-> 1, maxComputeUnits |-> 4, maxClockFrequency |-> 4, fails |-> FALSE],
      gpu64 |-> [id |-> 2, maxComputeUnits |-> 8, maxClockFrequency |-> 8, fails |-> FALSE],
      gpu64b |-> [id |-> 3, maxComputeUnits |-> 16, maxClockFrequency |-> 4, fails |-> FALSE],
      cpu0 |-> [id |-> 4, maxComputeUnits |-> 0, maxClockFrequency |-> 8, fails |-> FALSE],
      broken |-> [id |-> 5, maxComputeUnits |-> 32, maxClockFrequency |-> 8, fails |-> TRUE] ]

\* what platform.getDevices may yield for one platform (empty also when it raises)
DeviceLists ==
    { <<>>, <<Devices.gpu16>>, <<Devices.gpu64>>, <<Devices.gpu64b>>,
      <<Devices.gpu16, Devices.gpu64>>, <<Devices.gpu64, Devices.gpu16>>,
      <<Devices.broken, Devices.cpu0>> }

\* number of platforms cl::Platform::get may yield
MaxPlatforms == 2

\* what cl::Platform::get may yield (empty also when it raises)
PlatformLists == UNION {[1..n -> DeviceLists] : n \in 0..MaxPlatforms}

\* the identifiers a client asks for; 0 matches no device
Identifiers == {0, 1, 3}

\* GetDevicePowerIndex
GetDevicePowerIndex(device) == device.maxComputeUnits * device.maxClockFrequency

\* the loop over the devices with powerIndex >= maxPowerIndex for the test
\* powerIndex > maxPowerIndex
RECURSIVE SelectAmongDevicesAcceptsZero(_, _, _, _)
SelectAmongDevicesAcceptsZero(devices, identifier, selectedDevice, maxPowerIndex) ==
    IF devices = <<>> THEN selectedDevice
    ELSE IF Head(devices).fails
    THEN SelectAmongDevicesAcceptsZero(Tail(devices), identifier, selectedDevice,
                                       maxPowerIndex)
    ELSE IF identifier = Head(devices).id THEN <<Head(devices)>>
    ELSE IF GetDevicePowerIndex(Head(devices)) >= maxPowerIndex
    THEN SelectAmongDevicesAcceptsZero(Tail(devices), identifier, <<Head(devices)>>,
                                       GetDevicePowerIndex(Head(devices)))
    ELSE SelectAmongDevicesAcceptsZero(Tail(devices), identifier, selectedDevice,
                                       maxPowerIndex)

\* Diagnostics::SetOpenCLDevice, the loop over the devices of one platform:
\* a device whose queries raise is skipped, a device with the identifier
\* asked for is selected and ends this loop, a device with a power index
\* above the maximum of this loop is selected
RECURSIVE SelectAmongDevices(_, _, _, _)
SelectAmongDevices(devices, identifier, selectedDevice, maxPowerIndex) ==
    IF devices = <<>> THEN selectedDevice
    ELSE IF Head(devices).fails
    THEN SelectAmongDevices(Tail(devices), identifier, selectedDevice, maxPowerIndex)
    ELSE IF identifier = Head(devices).id THEN <<Head(devices)>>
    ELSE IF GetDevicePowerIndex(Head(devices)) > maxPowerIndex
    THEN SelectAmongDevices(Tail(devices), identifier, <<Head(devices)>>,
                            GetDevicePowerIndex(Head(devices)))
    ELSE SelectAmongDevices(Tail(devices), identifier, selectedDevice, maxPowerIndex)

\* Diagnostics::SetOpenCLDevice, the loop over the platforms: maxPowerIndex
\* starts at 0 for each platform
RECURSIVE SelectAmongPlatforms(_, _, _)
SelectAmongPlatforms(platforms, identifier, selectedDevice) ==
    IF platforms = <<>> THEN selectedDevice
    ELSE SelectAmongPlatforms(Tail(platforms), identifier,
             SelectAmongDevices(Head(platforms), identifier, selectedDevice, 0))

\* Diagnostics::SetOpenCLDevice: m_device as the call leaves it; without
\* platforms it returns before the assignment
SelectedDevice(platforms, identifier) ==
    IF platforms = <<>> THEN m_device
    ELSE SelectAmongPlatforms(platforms, identifier, <<>>)

\* Diagnostics::SetOpenCLDevice(identifier) on a host that reports platforms
SetOpenCLDevice(identifier) ==
    \E platforms \in PlatformLists :
        /\ m_device' = SelectedDevice(platforms, identifier)
        /\ lastCall' = [op |-> "SetOpenCLDevice", platforms |-> platforms,
                        identifier |-> identifier]
        /\ UNCHANGED <<m_maxNumberOfProblems, m_BuildOptions, jsonrpcVars>>

\* ------------------------------------------------------------------------
\* The diagnostics engine: build log
\* ------------------------------------------------------------------------

\* the part of str from position i to position j, cut at its end
Mid(str, i, j) == SubSeq(str, i, IF j > Len(str) THEN Len(str) ELSE j)

\* "." of the regular expression matches no line terminator
HasTerminator(str) == \E i \in 1..Len(str) : At(str, i) \in {"\r", "\n"}

\* the severity phrases of m_regex: ((fatal )?error|warning|Scholar)
Severities == {"fatal error", "error", "warning", "Scholar"}

\* position of the last digit of the run of digits that starts at i, i - 1
\* when there is none: what (\d+) takes
DigitsEnd(str, i) ==
    CHOOSE j \in (i - 1)..Len(str) :
        (\A k \in i..j : IsDigit(At(str, k))) /\ ~IsDigit(At(str, j + 1))

NoLineMatch ==
    [found |-> FALSE, source |-> "", line |-> "", col |-> "", severity |-> "",
     message |-> ""]

\* m_regex, ^(.*):(\d+):(\d+): ((fatal )?error|warning|Scholar): (.*)$, with
\* capture 1 ending before the colon at position k
MatchAt(errLine, k) ==
    LET Phrase(source, line, col, rest) ==
            IF \E phrase \in Severities : StartsWith(rest, phrase \o ": ")
            THEN LET phrase == CHOOSE ph \in Severities : StartsWith(rest, ph \o ": ")
                 IN  [found |-> ~HasTerminator(source) /\ ~HasTerminator(rest),
                      source |-> source, line |-> line, col |-> col,
                      severity |-> phrase,
                      message |-> Mid(rest, Len(phrase) + 3, Len(rest))]
            ELSE NoLineMatch
        Column(lineEnd, colEnd) ==
            IF colEnd > lineEnd + 1 /\ Mid(errLine, colEnd + 1, colEnd + 2) = ": "
            THEN Phrase(Mid(errLine, 1, k - 1), Mid(errLine, k + 1, lineEnd),
                        Mid(errLine, lineEnd + 2, colEnd),
                        Mid(errLine, colEnd + 3, Len(errLine)))
            ELSE NoLineMatch
        Line(lineEnd) ==
            IF lineEnd > k /\ At(errLine, lineEnd + 1) = ":"
            THEN Column(lineEnd, DigitsEnd(errLine, lineEnd + 2))
            ELSE NoLineMatch
    IN  IF At(errLine, k) = ":" THEN Line(DigitsEnd(errLine, k + 1)) ELSE NoLineMatch

\* std::regex_search(errLine, matches, m_regex): capture 1 is greedy, so it
\* ends before the last colon from which the rest of the line matches
MatchLine(errLine) ==
    LET Last(ks) ==
            IF ks = {} THEN NoLineMatch
            ELSE MatchAt(errLine, CHOOSE k \in ks : \A other \in ks : k >= other)
    IN  Last({k \in 1..Len(errLine) : MatchAt(errLine, k).found})

\* ParseSeverity
ParseSeverity(severity) ==
    IF severity = "error" THEN 1
    ELSE IF severity = "warning" THEN 2
    ELSE -1

\* ParseOutput without the shift to 0-indexed lines
ParseOutputKeepsLine(matches) ==
    LET Numbers(line, col) ==
            [throws |-> line.throws \/ col.throws,
             source |-> matches.source,
             line |-> line.n,
             col |-> col.n,
             severity |-> ParseSeverity(matches.severity),
             message |-> matches.message]
    IN  Numbers(Stoi(matches.line), Stoi(matches.col))

\* ParseOutput: std::stoi raises when the digits do not fit an int
ParseOutput(matches) ==
    LET Numbers(line, col) ==
            [throws |-> line.throws \/ col.throws,
             source |-> matches.source,
             line |-> line.n - 1,
             col |-> col.n,
             severity |-> ParseSeverity(matches.severity),
             message |-> matches.message]
    IN  Numbers(Stoi(matches.line), Stoi(matches.col))

\* utils::SplitString(str, "\n"): the lines of str
RECURSIVE SplitString(_, _)
SplitString(str, delimiter) ==
    IF \E i \in 1..Len(str) : At(str, i) = delimiter
    THEN LET Cut(at) == <<Mid(str, 1, at - 1)>>
                        \o SplitString(Mid(str, at + 1, Len(str)), delimiter)
         IN  Cut(CHOOSE i \in 1..Len(str) :
                    At(str, i) = delimiter /\ \A j \in 1..(i - 1) : At(str, j) # delimiter)
    ELSE <<str>>

\* lines an OpenCL compiler writes to its build log
LogLines ==
    [ prototype |-> "<program source>:13:5: warning: no previous prototype for function 'getChannel'",
      warning |-> "k.cl:7:5: warning: w",
      error |-> "k.cl:1:2: error: e",
      fatal |-> "k.cl:3:10: fatal error: f",
      scholar |-> "k.cl:4:4: Scholar: s",
      note |-> "k.cl:5:6: note: n",
      summary |-> "2 errors generated.",
      first |-> "k.cl:0:0: error: q",
      huge |-> "k.cl:99999999999:1: error: h" ]

\* the lines of the build logs the compiler may produce
BuildLogLines ==
    { <<>>, <<"">>,
      <<LogLines.prototype>>, <<LogLines.error>>, <<LogLines.fatal>>,
      <<LogLines.scholar>>, <<LogLines.note>>, <<LogLines.first>>,
      <<LogLines.error, LogLines.huge>>,
      <<LogLines.warning, LogLines.error, LogLines.first>>,
      <<LogLines.error, LogLines.warning, LogLines.note, LogLines.first,
        LogLines.warning, LogLines.summary>> }

\* the lines, each ended by "\n"
RECURSIVE JoinLines(_)
JoinLines(lines) ==
    IF lines = <<>> THEN "" ELSE Head(lines) \o "\n" \o JoinLines(Tail(lines))

\* the build logs Diagnostics::BuildSource may return, the trailing NUL of
\* the driver removed
BuildLogs == {JoinLines(lines) : lines \in BuildLogLines}

\* std::regex_search(errLine, matches, m_regex) for each line of each build
\* log, in the order of utils::SplitString(buildLog, "\n")
ErrorLineMatches ==
    [buildLog \in BuildLogs |->
        LET errorLines == SplitString(buildLog, "\n")
        IN  [i \in 1..Len(errorLines) |-> MatchLine(errorLines[i])]]

\* the object literal whose <<key, value>> pairs are given in key order
JObjSorted(pairs) ==
    [t |-> "object", s |-> "", n |-> 0,
     kv |-> [i \in 1..Len(pairs) |-> [k |-> pairs[i][1], v |-> pairs[i][2]]]]

\* the diagnostic BuildDiagnostics builds from a parsed line
Diagnostic(parsed, name) ==
    LET Range(position) == JObjSorted(<< <<"end", position>>, <<"start", position>> >>)
    IN  JObjSorted(<< <<"message", JStr(parsed.message)>>,
                      <<"range", Range(JObjSorted(<< <<"character", JNum(parsed.col)>>,
                                                     <<"line", JNum(parsed.line)>> >>))>>,
                      <<"severity", JNum(parsed.severity)>>,
                      <<"source", JStr(IF name = "" THEN parsed.source ELSE name)>> >>)

\* Diagnostics::BuildDiagnostics, the loop over the lines: a line that does
\* not match is passed over; a matching line ends the loop when count++ is
\* above m_maxNumberOfProblems, else its diagnostic is appended
RECURSIVE ScanLines(_, _, _, _)
ScanLines(lineMatches, name, count, diagnostics) ==
    LET Emit(parsed) ==
            IF parsed.throws THEN [throws |-> TRUE, diagnostics |-> diagnostics]
            ELSE ScanLines(Tail(lineMatches), name, count + 1,
                           Append(diagnostics, Diagnostic(parsed, name)))
        Matched(matches) ==
            IF ~matches.found THEN ScanLines(Tail(lineMatches), name, count, diagnostics)
            ELSE IF count > m_maxNumberOfProblems
            THEN [throws |-> FALSE, diagnostics |-> diagnostics]
            ELSE Emit(ParseOutput(matches))
    IN  IF lineMatches = <<>> THEN [throws |-> FALSE, diagnostics |-> diagnostics]
        ELSE Matched(Head(lineMatches))

\* Diagnostics::BuildDiagnostics: the json it returns is null until the
\* first emplace_back makes it an array
BuildDiagnostics(buildLog, name) ==
    LET Result(scan) ==
            [throws |-> scan.throws,
             diagnostics |-> IF scan.diagnostics = <<>> THEN JNull
                             ELSE JArr(scan.diagnostics)]
    IN  Result(ScanLines(ErrorLineMatches[buildLog], name, 0, <<>>))

\* std::filesystem::path(filePath).filename(): what follows the last "/"
Filename(filePath) ==
    LET Slashes == {i \in 1..Len(filePath) : At(filePath, i) = "/"}
    IN  IF Slashes = {} THEN filePath
        ELSE Mid(filePath, (CHOOSE i \in Slashes : \A j \in Slashes : i >= j) + 1,
                 Len(filePath))

\* Source::filePath of the documents validated
FilePaths == {"", "/home/u/kernel.cl"}

\* the values the server passes to SetMaxProblemsCount: 0..MaxProblems
MaxProblems == 2

\* m_maxNumberOfProblems of a new Diagnostics
DefaultMaxProblems == 100

\* Diagnostics::SetMaxProblemsCount
SetMaxProblemsCount(maxNumberOfProblems) ==
    /\ m_maxNumberOfProblems' = maxNumberOfProblems
    /\ lastCall' = [op |-> "SetMaxProblemsCount"]
    /\ UNCHANGED <<m_device, m_BuildOptions, jsonrpcVars>>

\* Diagnostics::Get(source): raises without a device; else the build log of
\* the source, as the compiler of the device wrote it, is turned into
\* diagnostics, and an exception of BuildDiagnostics leaves Get
Get(filePath) ==
    \E log \in BuildLogs :
        LET Returned(buildLog, built) ==
                lastCall' = [op |-> "Get", buildLog |-> buildLog, filePath |-> filePath,
                             threw |-> built.throws, diagnostics |-> built.diagnostics]
            Built(buildLog) ==
                Returned(buildLog, BuildDiagnostics(buildLog, Filename(filePath)))
        IN  /\ IF m_device = <<>>
               THEN lastCall' = [op |-> "Get", buildLog |-> "", filePath |-> filePath,
                                 threw |-> TRUE, diagnostics |-> JNull]
               ELSE Built(log)
            /\ UNCHANGED <<m_device, m_maxNumberOfProblems, m_BuildOptions, jsonrpcVars>>

\* ------------------------------------------------------------------------
\* The diagnostics engine: build options
\* ------------------------------------------------------------------------

\* the values a range-for over a json visits: the elements of an array, the
\* values of an object, nothing for null, the value itself otherwise
Elements(j) ==
    IF j.t = "null" THEN <<>>
    ELSE IF j.t \in {"array", "object"} THEN [i \in 1..Len(j.kv) |-> j.kv[i].v]
    ELSE <<j>>

\* the loop with option.get<std::string>() read as "" for a non-string
\* instead of raising
RECURSIVE AppendOptionsSkipsMalformed(_, _)
AppendOptionsSkipsMalformed(options, args) ==
    IF options = <<>> THEN [throws |-> FALSE, args |-> args]
    ELSE AppendOptionsSkipsMalformed(Tail(options),
             args \o (IF Head(options).t = "string" THEN Head(options).s ELSE "") \o " ")

\* Diagnostics::SetBuildOptions, the loop: each option is appended to args
\* and followed by " "; option.get<std::string>() raises for a non-string
RECURSIVE AppendOptions(_, _)
AppendOptions(options, args) ==
    IF options = <<>> THEN [throws |-> FALSE, args |-> args]
    ELSE IF Head(options).t # "string" THEN [throws |-> TRUE, args |-> args]
    ELSE AppendOptions(Tail(options), args \o Head(options).s \o " ")

\* entries of a buildOptions array: two options and a number
OptionEntries == {JStr("-I inc"), JStr("-DX=1"), JNum(7)}

\* length of the buildOptions arrays
MaxOptions == 3

\* the buildOptions arrays a client sends
OptionArrays ==
    {JArr(entries) : entries \in UNION {[1..n -> OptionEntries] : n \in 0..MaxOptions}}

\* Diagnostics::SetBuildOptions(options): args is stored when the loop ends,
\* an exception of the loop is caught and leaves m_BuildOptions alone
SetBuildOptions(options) ==
    LET Stored(appended) ==
            m_BuildOptions' = IF appended.throws THEN m_BuildOptions ELSE appended.args
    IN  /\ Stored(AppendOptions(Elements(options), ""))
        /\ lastCall' = [op |-> "SetBuildOptions", options |-> options,
                        before |-> m_BuildOptions]
        /\ UNCHANGED <<m_device, m_maxNumberOfProblems, jsonrpcVars>>

\* ------------------------------------------------------------------------
\* Specification
\* ------------------------------------------------------------------------

\* the endpoint as constructed
JsonRPCInit ==
    /\ m_method = ""
    /\ m_buffer = ""
    /\ m_body = JNull
    /\ m_headers = <<>>
    /\ m_callbacks = {}
    /\ m_respondCallback = FALSE
    /\ m_outputCallback = FALSE
    /\ m_isProcessing = TRUE
    /\ m_initialized = FALSE
    /\ m_validHeader = FALSE
    /\ m_tracing = FALSE
    /\ m_verbosity = FALSE
    /\ m_contentLength = 0
    /\ thrown = FALSE
    /\ input = ""
    /\ sent = 0
    /\ cur = ""
    /\ prevError = 0
    /\ atBoundary = TRUE
    /\ prevThrew = FALSE
    /\ logged = <<>>
    /\ output = <<>>
    /\ calls = <<>>

\* Diagnostics::Diagnostics: the constructor calls SetOpenCLDevice(0)
Constructed(platforms) ==
    /\ m_device = SelectAmongPlatforms(platforms, 0, <<>>)
    /\ m_maxNumberOfProblems = DefaultMaxProblems
    /\ m_BuildOptions = ""
    /\ lastCall = [op |-> "SetOpenCLDevice", platforms |-> platforms, identifier |-> 0]

\* the endpoint, next to a diagnostics engine on a host without platforms
Init == JsonRPCInit /\ Constructed(<<>>)

Next ==
    \/ \E method \in HandledMethods : RegisterMethodCallback(method)
    \/ RegisterInputCallback
    \/ RegisterOutputCallback
    \/ \E name \in FrameNames : Send(name)
    \/ Consume
    \/ Reset
    \/ \E message \in TraceMessages, verbose \in TraceVerbose : CallLogTrace(message, verbose)

Spec == Init /\ [][Next]_vars

\* the diagnostics engine, next to an endpoint that is left alone
DiagnosticsInit == JsonRPCInit /\ \E platforms \in PlatformLists : Constructed(platforms)

DiagnosticsNext ==
    \/ \E identifier \in Identifiers : SetOpenCLDevice(identifier)
    \/ \E maxNumberOfProblems \in 0..MaxProblems : SetMaxProblemsCount(maxNumberOfProblems)
    \/ \E filePath \in FilePaths : Get(filePath)

DiagnosticsSpec == DiagnosticsInit /\ [][DiagnosticsNext]_vars

\* the build options of the diagnostics engine, the rest left alone
BuildOptionsNext == \E options \in OptionArrays : SetBuildOptions(options)

BuildOptionsSpec == Init /\ [][BuildOptionsNext]_vars

\* ------------------------------------------------------------------------
\* Observations
\* ------------------------------------------------------------------------

\* every byte of the current frame was consumed
FrameDone == sent > 0 /\ input = "" /\ ~thrown

\* the current frame carries a JSON message, framed by Write
CurIsMessage == cur \in DOMAIN Messages
CurMessage == Messages[cur]

\* the method of the current frame's message, "" when it has none
CurMethod ==
    IF CurIsMessage /\ JHas(CurMessage, "method") /\ JAt(CurMessage, "method").t = "string"
    THEN JAt(CurMessage, "method").s
    ELSE ""

\* this step is a call of Consume
ConsumeStep == input' # input /\ sent' = sent

\* the body that the byte fed in this step completes
CompletedText == m_buffer \o At(input, 1)

\* the handlers invoked for the current frame
Invoked == [i \in 1..Len(calls) |-> calls[i].handler]

\* ------------------------------------------------------------------------
\* Properties
\* ------------------------------------------------------------------------

\* C1 (lifecycle gate): every frame whose message has a method other than
\* "initialize" and that is fed while the endpoint is not initialized is
\* answered by exactly one NotInitialized error response and reaches no
\* handler, whichever its place in the sequence of frames: the first frame,
\* a frame that begins between two frames, or the frame after a frame that
\* was itself answered by NotInitialized.
C1_LifecycleGate ==
    (FrameDone /\ CurIsMessage /\ CurMethod \notin {"", "initialize"} /\ ~m_initialized
        /\ (atBoundary \/ prevError = NotInitialized))
        => (ErrorCodes(output) = <<NotInitialized>> /\ calls = <<>>)

\* C2 (protocol errors do not end the endpoint): a well-formed frame fed by
\* the byte pump after a frame that was answered by a protocol error is still
\* dispatched: a message whose method has a handler is answered or handled.
C2_ErrorsKeepEndpointAlive ==
    (FrameDone /\ prevError # 0 /\ CurIsMessage /\ CurMethod \in m_callbacks)
        => (calls # <<>> \/ output # <<>>)

\* C3 (busy cleared once per parsed body): the call of Consume that completes
\* a body which parses as a JSON message with a string method leaves the
\* endpoint ready, on every dispatch path.
C3_BusyClearedAfterParse ==
    [][ (ConsumeStep /\ CompletesBody /\ Parse(CompletedText).ok
            /\ JHas(Parse(CompletedText).v, "method")
            /\ JAt(Parse(CompletedText).v, "method").t = "string")
        => ~m_isProcessing' ]_vars

\* the one error response WriteError(errorCode, message) hands to the sink
ErrorResponse(errorCode, message) == WriteError(errorCode, message)[1]

\* C4 (parse error): the call of Consume that completes a body which is not
\* valid JSON writes exactly one ParseError error response, invokes no
\* handler and leaves the buffer empty.
C4_ParseError ==
    [][ (ConsumeStep /\ CompletesBody /\ ~Parse(CompletedText).ok)
        => /\ output' = Append(output, ErrorResponse(ParseError, "Failed to parse request"))
           /\ ErrorCodeOf(output'[Len(output')]) = ParseError
           /\ calls' = calls
           /\ m_buffer' = "" ]_vars

\* C4 witness: the frame with the malformed body of the tests was consumed
\* and answered by one ParseError, with the buffer empty.
C4_Witness ==
    /\ FrameDone /\ cur = "badJson" /\ atBoundary
    /\ ErrorCodes(output) = <<ParseError>>
    /\ calls = <<>>
    /\ m_buffer = ""

\* the current frame carries an `id` member
CurHasId == CurIsMessage /\ JHas(CurMessage, "id")

\* C5 (unknown method): once initialized, a message whose method has no
\* handler is answered by exactly one MethodNotFound error response if and
\* only if it carries an `id` or its method does not start with "$/";
\* otherwise nothing is written.
C5_MethodNotFound ==
    (FrameDone /\ atBoundary /\ m_initialized /\ CurIsMessage
        /\ CurMethod # "" /\ CurMethod \notin m_callbacks)
        => IF CurHasId \/ ~StartsWith(CurMethod, "$/")
           THEN ErrorCodes(output) = <<MethodNotFound>>
           ELSE output = <<>>

\* C6 (notification silence): a message whose method begins with "$/", that
\* carries no `id` and whose method has no handler produces no output and no
\* handler invocation.  Stated for the initialized endpoint, where the
\* lifecycle gate of C1 does not answer it.
C6_NotificationSilence ==
    (FrameDone /\ atBoundary /\ m_initialized /\ CurIsMessage
        /\ StartsWith(CurMethod, "$/") /\ ~CurHasId /\ CurMethod \notin m_callbacks)
        => (output = <<>> /\ calls = <<>>)

\* params.trace of the current frame's message, "off" when it is absent
CurTrace ==
    IF JHas(CurMessage, "params") /\ JHas(JAt(CurMessage, "params"), "trace")
    THEN JAt(JAt(CurMessage, "params"), "trace").s
    ELSE "off"

\* C7 (initialize): a processed initialize message leaves the endpoint
\* initialized, with tracing = (trace # "off") and verbose tracing =
\* (trace = "verbose") where an absent params.trace counts as "off", and its
\* handler is invoked.
C7_Initialize ==
    (FrameDone /\ atBoundary /\ CurMethod = "initialize")
        => /\ m_initialized
           /\ m_tracing = (CurTrace # "off")
           /\ m_verbosity = (CurTrace = "verbose")
           /\ Invoked = <<"initialize">>

\* C8 (framing round trip): the bytes Write(J) emits for a message J whose
\* method has a handler, fed byte by byte to an initialized endpoint, invoke
\* that handler exactly once, with J plus "jsonrpc":"2.0".
C8_RoundTrip ==
    (FrameDone /\ atBoundary /\ m_initialized /\ sent > 1
        /\ CurIsMessage /\ CurMethod \in m_callbacks)
        => /\ Invoked = <<CurMethod>>
           /\ calls[1].arg = Emplace(CurMessage, "jsonrpc", JStr("2.0"))

\* C9 (no exception leaves Consume): whatever the bytes fed, no call of
\* Consume ends by an exception.
C9_ConsumeNeverThrows == ~thrown

\* C10 (invalid content length): the call of Consume that reads the empty
\* line ending the headers while no content length above 0 is known writes
\* exactly one InvalidRequest error response, clears the buffer and stays
\* reading headers; the well-formed frame that follows is then dispatched.
C10_Step ==
    (ConsumeStep /\ ~m_validHeader /\ CompletedText = LE /\ m_contentLength <= 0)
        => /\ output' = Append(output, ErrorResponse(InvalidRequest, "Invalid content length"))
           /\ ErrorCodeOf(output'[Len(output')]) = InvalidRequest
           /\ m_buffer' = ""
           /\ ~m_validHeader'

C10_FollowingFrame ==
    (FrameDone /\ prevError = InvalidRequest /\ CurIsMessage /\ CurMethod \in m_callbacks)
        => \/ Invoked = <<CurMethod>>
           \/ ErrorCodes(output) = <<NotInitialized>>

HandlerRaised ==
    \E i \in (Len(calls) + 1)..Len(calls') :
        calls'[i].threw /\ calls'[i].handler # RespondHandler

\* C11 (a raising handler is swallowed): the call of Consume in which a
\* method handler raises writes nothing, lets no exception out and leaves the
\* endpoint ready; the frame fed after Reset() is then dispatched as usual.
C11_Step ==
    (ConsumeStep /\ HandlerRaised)
        => (output' = output /\ ~thrown' /\ ~m_isProcessing')

C11_FollowingFrame ==
    (FrameDone /\ prevThrew /\ CurIsMessage /\ CurMethod \in m_callbacks)
        => /\ atBoundary
           /\ IF m_initialized \/ CurMethod = "initialize"
              THEN Invoked = <<CurMethod>> /\ output = <<>>
              ELSE ErrorCodes(output) = <<NotInitialized>> /\ calls = <<>>

C11_HandlerExceptionSwallowed == [][C11_Step]_vars /\ []C11_FollowingFrame

\* C11 witness: the handler of the first frame raised, and the handler of
\* the frame fed after it was invoked.
C11_Witness ==
    /\ FrameDone /\ sent = 2 /\ prevThrew
    /\ cur = "foo" /\ Invoked = <<"foo">> /\ m_initialized

\* the message the last call of LogTrace wrote, as the peer parses it
LoggedMessage == Parse(ParseResponse(logged[1].out[1])).v

\* C12 (LogTrace): a call of LogTrace writes exactly one $/logTrace
\* notification when tracing is enabled and nothing when it is disabled,
\* whatever its verbose argument; the params of the notification have the
\* `verbose` member only when verbose tracing is enabled.
C12_LogTrace ==
    logged # <<>> =>
        IF m_tracing
        THEN /\ Len(logged[1].out) = 1
             /\ JAt(LoggedMessage, "method") = JStr("$/logTrace")
             /\ JHas(JAt(LoggedMessage, "params"), "verbose") <=> m_verbosity
        ELSE logged[1].out = <<>>

\* params.value of the current frame's message, "" when it is absent
CurValue ==
    IF JHas(CurMessage, "params") /\ JHas(JAt(CurMessage, "params"), "value")
    THEN JAt(JAt(CurMessage, "params"), "value").s
    ELSE ""

\* C13 (latest trace value): after a processed initialize message (an absent
\* params.trace counting as "off") or a processed $/setTrace message with a
\* value, tracing = (value # "off") and verbose tracing = (value =
\* "verbose"); and LogTrace("hi", "detail") called with verbose tracing
\* enabled writes exactly the $/logTrace notification with message "hi" and
\* verbose "detail".
C13_LatestTrace ==
    /\ (FrameDone /\ atBoundary /\ CurMethod = "initialize")
            => (m_tracing = (CurTrace # "off") /\ m_verbosity = (CurTrace = "verbose"))
    /\ (FrameDone /\ atBoundary /\ CurMethod = "$/setTrace" /\ m_initialized
            /\ CurValue # "")
            => (m_tracing = (CurValue # "off") /\ m_verbosity = (CurValue = "verbose"))
    /\ (logged # <<>> /\ m_verbosity /\ logged[1].verbose = "detail")
            => /\ Len(logged[1].out) = 1
               /\ LoggedMessage =
                      JObj(<< <<"jsonrpc", JStr("2.0")>>,
                              <<"method", JStr("$/logTrace")>>,
                              <<"params", JObj(<< <<"message", JStr("hi")>>,
                                                  <<"verbose", JStr("detail")>> >>)>> >>)

\* C14 (Reset): a call of Reset empties the buffer, zeroes the content
\* length, returns to reading headers and sets busy; it leaves the lifecycle
\* flags, the method handlers, the response handler and the output sink as
\* they were.
C14_ResetFrame ==
    [][ (IsReady /\ m_isProcessing')
        => /\ m_buffer' = "" /\ m_contentLength' = 0 /\ ~m_validHeader'
           /\ UNCHANGED <<m_initialized, m_tracing, m_verbosity, m_callbacks,
                          m_respondCallback, m_outputCallback>> ]_vars

\* C14 witness: Reset was called after the initialize frame reached its
\* handler, and the endpoint is still initialized with its handlers.
C14_Witness ==
    /\ sent = 1 /\ cur = "initVerbose" /\ input = "" /\ Invoked = <<"initialize">>
    /\ m_isProcessing /\ ~m_validHeader /\ m_buffer = "" /\ m_contentLength = 0
    /\ m_initialized /\ m_tracing /\ m_verbosity
    /\ HandledMethods \subseteq m_callbacks /\ m_outputCallback

\* C15 (body phase has a length): whenever the endpoint reads a body, the
\* content length is above 0.
C15_BodyHasLength == m_validHeader => m_contentLength > 0

\* C15 witness: the endpoint is in the middle of a body.
C15_Witness == m_validHeader /\ m_buffer # "" /\ Len(m_buffer) < m_contentLength

\* ------------------------------------------------------------------------
\* Claims about the diagnostics engine
\* ------------------------------------------------------------------------

\* the last call was a Get that returned
GetReturned == lastCall.op = "Get" /\ ~lastCall.threw

\* the diagnostics the last Get returned, in order (none when null)
Returned == [i \in 1..Len(lastCall.diagnostics.kv) |-> lastCall.diagnostics.kv[i].v]

\* the lines of the build log of the last Get that m_regex matches, in order
MatchedLines == SelectSeq(ErrorLineMatches[lastCall.buildLog], LAMBDA m : m.found)

\* C16 (cap enforcement): whatever the build log and the value n >= 0 given
\* to SetMaxProblemsCount, the diagnostics Get returns are at most n.
C16_CapEnforced == GetReturned => Len(Returned) <= m_maxNumberOfProblems

\* the severity the specification gives a severity phrase, 0 for none
SpecSeverity(phrase) ==
    IF phrase \in {"error", "fatal error"} THEN 1
    ELSE IF phrase = "warning" THEN 2
    ELSE 0

IsPrefix(a, b) == Len(a) <= Len(b) /\ \A i \in 1..Len(a) : a[i] = b[i]

\* C17 (severity mapping): the severities of the diagnostics Get returns are
\* those of the matched lines whose phrase is "error" or "fatal error" (1)
\* or "warning" (2), in order and up to the cap; a line with another phrase
\* yields no diagnostic, and no diagnostic has a severity outside {1, 2}.
C17_SeverityMapping ==
    GetReturned =>
        /\ \A i \in 1..Len(Returned) : JAt(Returned[i], "severity").n \in {1, 2}
        /\ IsPrefix([i \in 1..Len(Returned) |-> JAt(Returned[i], "severity").n],
                    SelectSeq([i \in 1..Len(MatchedLines) |->
                                  SpecSeverity(MatchedLines[i].severity)],
                              LAMBDA severity : severity # 0))

\* the number a run of decimal digits writes
RECURSIVE DecimalValue(_)
DecimalValue(digits) ==
    IF digits = "" THEN 0
    ELSE 10 * DecimalValue(Mid(digits, 1, Len(digits) - 1))
         + (CHOOSE d \in 0..9 : At(Digits, d + 1) = At(digits, Len(digits)))

\* the position {line, character} as a json object
Position(line, character) ==
    JObj(<< <<"line", JNum(line)>>, <<"character", JNum(character)>> >>)

\* C18 (diagnostic position): the diagnostic of a line <src>:L:C: error: M
\* (or warning) has range.start = range.end = {line: L-1, character: C}
\* and message M.
C18_DiagnosticPosition ==
    GetReturned =>
        \A i \in 1..Len(Returned) :
            MatchedLines[i].severity \in {"error", "warning"} =>
                /\ JAt(JAt(Returned[i], "range"), "start")
                       = Position(DecimalValue(MatchedLines[i].line) - 1,
                                  DecimalValue(MatchedLines[i].col))
                /\ JAt(JAt(Returned[i], "range"), "end")
                       = JAt(JAt(Returned[i], "range"), "start")
                /\ JAt(Returned[i], "message") = JStr(MatchedLines[i].message)

\* C18 witness: Get returned the diagnostic of the warning at 13:5, at line
\* 12 and character 5.
C18_Witness ==
    /\ GetReturned
    /\ lastCall.buildLog = JoinLines(<<LogLines.prototype>>)
    /\ Len(Returned) = 1
    /\ JAt(JAt(Returned[1], "range"), "start") = Position(12, 5)
    /\ JAt(JAt(Returned[1], "range"), "end") = Position(12, 5)

\* the devices of the platforms, in enumeration order, without those whose
\* queries fail
RECURSIVE EnumeratedDevices(_)
EnumeratedDevices(platforms) ==
    IF platforms = <<>> THEN <<>>
    ELSE SelectSeq(Head(platforms), LAMBDA device : ~device.fails)
         \o EnumeratedDevices(Tail(platforms))

\* the last call was SetOpenCLDevice, or the constructor
DeviceSelected == lastCall.op = "SetOpenCLDevice"

\* C19 (exact match): when a device enumerated by the last SetOpenCLDevice
\* has the identifier asked for, that device is selected, whatever the power
\* indices of the devices before and after it.
C19_ExactMatch ==
    DeviceSelected =>
        \A i \in 1..Len(EnumeratedDevices(lastCall.platforms)) :
            EnumeratedDevices(lastCall.platforms)[i].id = lastCall.identifier
                => m_device = <<EnumeratedDevices(lastCall.platforms)[i]>>

\* the earliest device of greatest power index among devices
Strongest(devices) ==
    devices[CHOOSE i \in 1..Len(devices) :
                /\ \A j \in 1..Len(devices) :
                       GetDevicePowerIndex(devices[j]) <= GetDevicePowerIndex(devices[i])
                /\ \A j \in 1..(i - 1) :
                       GetDevicePowerIndex(devices[j]) < GetDevicePowerIndex(devices[i])]

\* C20 (auto-selection): when no enumerated device has the identifier asked
\* for, the last SetOpenCLDevice selected the device of greatest power index
\* among the devices of all platforms, the earliest one on ties.
C20_AutoSelect ==
    LET Auto(devices) ==
            (/\ \A i \in 1..Len(devices) : devices[i].id # lastCall.identifier
             /\ \E i \in 1..Len(devices) : GetDevicePowerIndex(devices[i]) > 0)
                => m_device = <<Strongest(devices)>>
    IN  DeviceSelected => Auto(EnumeratedDevices(lastCall.platforms))

\* the devices of the platforms, in enumeration order
RECURSIVE AllDevices(_)
AllDevices(platforms) ==
    IF platforms = <<>> THEN <<>>
    ELSE Head(platforms) \o AllDevices(Tail(platforms))

\* Get failed with the missing-device error, without compiling
GetFailedWithoutDevice ==
    lastCall.op = "Get" /\ lastCall.threw /\ lastCall.buildLog = ""

\* C21 (zero devices): when the enumeration of the last SetOpenCLDevice
\* yielded no device (no platforms, or platforms without devices), the
\* selection is empty, also when an earlier call had selected a device; and
\* a Get with an empty selection fails with the missing-device error without
\* compiling.
C21_ZeroDevices ==
    /\ (DeviceSelected /\ AllDevices(lastCall.platforms) = <<>>) => m_device = <<>>
    /\ (lastCall.op = "Get" /\ m_device = <<>>) => GetFailedWithoutDevice

\* C25 (auto-selection needs a power index above 0): a device the last
\* SetOpenCLDevice selected without an identifier match has a power index
\* above 0; when devices were enumerated, none has the identifier asked for
\* and each has power index 0 or fails its queries, the selection is empty,
\* and a Get with an empty selection fails with the missing-device error.
C25_AutoSelectNeedsPower ==
    LET Enumerated(devices) ==
            /\ (m_device # <<>> /\ m_device[1].id # lastCall.identifier)
                   => GetDevicePowerIndex(m_device[1]) > 0
            /\ (/\ devices # <<>>
                /\ \A i \in 1..Len(devices) :
                       \/ devices[i].fails
                       \/ /\ devices[i].id # lastCall.identifier
                          /\ GetDevicePowerIndex(devices[i]) = 0)
                   => m_device = <<>>
    IN  /\ (DeviceSelected /\ lastCall.platforms # <<>>)
               => Enumerated(AllDevices(lastCall.platforms))
        /\ (lastCall.op = "Get" /\ m_device = <<>>) => GetFailedWithoutDevice

\* C25 witness: the last SetOpenCLDevice enumerated a device whose queries
\* fail and a device of power index 0, and left the selection empty.
C25_Witness ==
    /\ DeviceSelected
    /\ lastCall.platforms = << <<Devices.broken, Devices.cpu0>> >>
    /\ m_device = <<>>

\* the last call was SetBuildOptions
OptionsSet == lastCall.op = "SetBuildOptions"

\* the entries of the array given to the last SetBuildOptions
GivenOptions == [i \in 1..Len(lastCall.options.kv) |-> lastCall.options.kv[i].v]

\* the strings joined by single spaces
RECURSIVE JoinBySpaces(_)
JoinBySpaces(entries) ==
    IF entries = <<>> THEN ""
    ELSE IF Len(entries) = 1 THEN entries[1].s
    ELSE entries[1].s \o " " \o JoinBySpaces(Tail(entries))

\* an entry of the array is no string
Malformed == \E i \in 1..Len(GivenOptions) : GivenOptions[i].t # "string"

\* C22 as stated (build options): an array with a non-string entry, at any
\* position, leaves the stored option string as it was before the call; an
\* array of strings stores its entries joined by single spaces.
C22_BuildOptionsJoined ==
    OptionsSet =>
        IF Malformed THEN m_BuildOptions = lastCall.before
        ELSE m_BuildOptions = JoinBySpaces(GivenOptions)

\* C22 as amended (build options): an array with a non-string entry, at any
\* position, leaves the stored option string as it was before the call; an
\* array of strings stores its entries joined by single spaces and, unless
\* the array is empty, one more space after the last entry.
C22_BuildOptionsAppended ==
    OptionsSet =>
        IF Malformed THEN m_BuildOptions = lastCall.before
        ELSE m_BuildOptions = JoinBySpaces(GivenOptions)
                                  \o (IF GivenOptions = <<>> THEN "" ELSE " ")

\* C22 witness: options were stored, and a later array whose last entry is
\* a number left them as they were.
C22_Witness ==
    /\ OptionsSet
    /\ lastCall.before = "-DX=1 "
    /\ lastCall.options = JArr(<<JStr("-I inc"), JNum(7)>>)
    /\ m_BuildOptions = "-DX=1 "

\* C23 (Consume never leaves the body phase): a call of Consume made while
\* the body is read leaves the phase and the content length as they are; the
\* byte that brings the buffer to the content length has the buffer taken as
\* a body (which is handled or answered), every other byte is only appended
\* to the buffer, also beyond the content length; and a ParseError leaves
\* the buffer empty, so that the bytes that follow are again read as a body.
C23_Step ==
    (ConsumeStep /\ m_validHeader) =>
        /\ m_validHeader'
        /\ m_contentLength' = m_contentLength
        /\ IF Len(CompletedText) = m_contentLength
           THEN \/ thrown'
                \/ ~m_isProcessing'
                \/ /\ Len(output') = Len(output) + 1
                   /\ ErrorCodeOf(output'[Len(output')]) \in {ParseError, NotInitialized}
                   /\ ErrorCodeOf(output'[Len(output')]) = ParseError => m_buffer' = ""
           ELSE /\ m_buffer' = CompletedText
                /\ UNCHANGED <<m_method, m_body, m_headers, m_isProcessing, m_initialized,
                               m_tracing, m_verbosity, thrown, output, calls>>

\* only Reset() ends the body phase or changes the content length in it
C23_OnlyReset ==
    (m_validHeader /\ (~m_validHeader' \/ m_contentLength' # m_contentLength))
        => (IsReady /\ m_isProcessing' /\ m_buffer' = "" /\ input' = input)

C23_ConsumeKeepsBodyPhase == [][C23_Step /\ C23_OnlyReset]_vars

\* C23 witness: the frame before was answered by ParseError; the first bytes
\* of the current frame, as many as the content length of the frame before,
\* were taken as a body and answered by ParseError too, and the bytes after
\* them are in the buffer.
C23_Witness ==
    /\ FrameDone /\ sent = 2 /\ ~atBoundary /\ prevError = ParseError
    /\ m_validHeader
    /\ ErrorCodes(output) = <<ParseError>>
    /\ m_buffer # ""

\* C23 second witness state: bytes fed after a body that was not followed
\* by Reset() lie in the buffer beyond the content length.
C23_BeyondBody == m_validHeader /\ Len(m_buffer) > m_contentLength /\ output = <<>>

\* the byte fed in this step completes the body of the current frame, a
\* message without a method or with a method that is no string, fed between
\* two frames
ResponseCompleted ==
    /\ ConsumeStep /\ atBoundary
    /\ CurIsMessage /\ CurMethod = ""
    /\ m_validHeader /\ Len(CompletedText) = m_contentLength

\* C24 (a body without a method is a response): such a body is passed to
\* the response handler when one is registered and to no method handler, no
\* error response is written for it and the endpoint is ready afterwards,
\* whether the endpoint is initialized or not.
C24_Step ==
    ResponseCompleted =>
        /\ [i \in 1..Len(calls') |-> calls'[i].handler]
               = (IF m_respondCallback THEN <<RespondHandler>> ELSE <<>>)
        /\ output' = <<>>
        /\ ~m_isProcessing'

C24_NoMethodIsResponse == [][C24_Step]_vars

====
